---- MODULE Spec2Model ----
(***************************************************************************)
(* State-machine model of kernels/rust/aphrodite-cuda/aphrussy/loader.rs:  *)
(* the streaming tensor loader (load_model), the weight manifest resolver  *)
(* (model_filenames), the cache capacity profiler (profile_model), the     *)
(* model config reconciler (load_model_config / load_one_config) and the   *)
(* engine assembly that calls them in turn (load_aphrodite_engine).        *)
(*                                                                         *)
(* Each routine is a sequential procedure; it is modelled as a machine     *)
(* with its own program counter, one action per statement group, and its   *)
(* inputs (shard files, repository contents, device readings, config       *)
(* documents) chosen in the initial state of its specification.            *)
(***************************************************************************)
EXTENDS Integers, Sequences, FiniteSets, TLC

VARIABLES
    \* ---- load_model ----
    filenames,    \* the shard files behind `filenames`, in list order
    vars,         \* the ParameterTable: name -> declared shape of the slot
    slots,        \* name -> sequence of shard indices copied into the slot
    lm_pc,        \* position in load_model
    idx,          \* 1-based index of the shard of the current iteration
    todo,         \* tensors of safetensors.names() not yet visited
    view,         \* live TensorViews (src_tensor), each with its shard index
    mapped,       \* shard indices whose memory mapping is alive
    opened,       \* shard indices opened so far, in order
    bar,          \* position of the progress bar
    warnings,     \* names passed to log::warn!, in order
    finalized,    \* number of calls of model.finalize()
    lm_result,    \* what load_model returned (or how it aborted)
    \* ---- profile_model ----
    gpu_mem,        \* gpu_memory_size(device)
    frac,           \* gpu_memory_utilization, as a numerator over 2^FracBits
    dev_peak,       \* what gpu_peak_allocated_bytes(device) reports
    elt_size,       \* CacheEngine::get_cache_block_size(&config)
    pm_pc,          \* position in profile_model
    pm_events,      \* calls made on the device and the model, in order
    gpu_cache_size, \* the local gpu_cache_size
    pm_result,      \* the CacheSize returned, or the panic
    \* ---- load_model_config ----
    cfg_in,         \* config.json, the tokenizer and the loader arguments
    cfg_pc,         \* position in load_model_config
    cfg,            \* the Option<ModelConfig> built so far
    err,            \* the String err, as a sequence of tokens
    attempts,       \* schema names passed to load_one_config, in order
    cfg_result,     \* what load_model_config returned
    \* ---- model_filenames ----
    repo,           \* the repository: index document, is_local, what get finds
    mf_pc,          \* position in model_filenames
    shard_names,    \* the Vec<String> filenames before resolution
    branch,         \* which arm of `if let Ok(idx) = idx` ran
    gets,           \* names passed to repo.get, in order
    paths,          \* the paths collected so far
    mf_result,      \* what model_filenames returned
    \* ---- load_aphrodite_engine ----
    eng_pc,         \* position in load_aphrodite_engine
    stages,         \* the calls made so far, in order, each with its outcome
    eng_result      \* what load_aphrodite_engine returned (or how it aborted)

lm_vars == <<filenames, vars, slots, lm_pc, idx, todo, view,
             mapped, opened, bar, warnings, finalized, lm_result>>

pm_vars == <<gpu_mem, frac, dev_peak, elt_size, pm_pc, pm_events,
             gpu_cache_size, pm_result>>

cfg_vars == <<cfg_in, cfg_pc, cfg, err, attempts, cfg_result>>

mf_vars == <<repo, mf_pc, shard_names, branch, gets, paths, mf_result>>

eng_vars == <<eng_pc, stages, eng_result>>

vars_all == <<lm_vars, pm_vars, cfg_vars, mf_vars, eng_vars>>

(* What the actions of one routine leave unchanged.                         *)
not_lm == <<pm_vars, cfg_vars, mf_vars, eng_vars>>

not_pm == <<lm_vars, cfg_vars, mf_vars, eng_vars>>

not_cfg == <<lm_vars, pm_vars, mf_vars, eng_vars>>

not_mf == <<lm_vars, pm_vars, cfg_vars, eng_vars>>

----------------------------------------------------------------------------
(* Names are sequences of characters, so that ends_with is computed.        *)

inv_freq == <<".", "i", "n", "v", "_", "f", "r", "e", "q">>

NameW == <<"w">>
NameB == <<"b">>
NameX == <<"i", "n", "v", "_", "f", "r", "e", "q">>   \* "inv_freq": no dot
NameR == <<"r">> \o inv_freq                          \* "r.inv_freq"

ends_with(s, suffix) ==
    /\ Len(s) >= Len(suffix)
    /\ SubSeq(s, Len(s) - Len(suffix) + 1, Len(s)) = suffix

(* safetensors::Dtype tags and kind_from_dt.                                *)
KnownDtypes ==
    {"BOOL", "U8", "I8", "I16", "I32", "I64", "BF16", "F16", "F32", "F64"}

(* kind_from_dt with a silent default in place of the panic.                *)
kind_from_dt_default(dtype) ==
    IF dtype \in {"BOOL", "U8"} THEN (IF dtype = "BOOL" THEN "Bool" ELSE "Uint8")
    ELSE IF dtype \in {"I8", "I16"} THEN (IF dtype = "I8" THEN "Int8" ELSE "Int16")
    ELSE IF dtype \in {"I32", "I64"} THEN (IF dtype = "I32" THEN "Int" ELSE "Int64")
    ELSE IF dtype \in {"BF16", "F16"} THEN (IF dtype = "BF16" THEN "BFloat16" ELSE "Half")
    ELSE IF dtype = "F64" THEN "Double"
    ELSE "Float"

kind_from_dt(dtype) ==
    CASE dtype = "BOOL" -> "Bool"
      [] dtype = "U8"   -> "Uint8"
      [] dtype = "I8"   -> "Int8"
      [] dtype = "I16"  -> "Int16"
      [] dtype = "I32"  -> "Int"
      [] dtype = "I64"  -> "Int64"
      [] dtype = "BF16" -> "BFloat16"
      [] dtype = "F16"  -> "Half"
      [] dtype = "F32"  -> "Float"
      [] dtype = "F64"  -> "Double"
      [] OTHER          -> "panic"

(* The parameters a freshly constructed model declares (vs.variables()).    *)
Declared == [n \in {NameW, NameB} |-> IF n = NameW THEN <<2, 3>> ELSE <<4>>]

(* Tensors a shard file may declare.                                        *)
TensorPool ==
    { [name |-> NameW, shape |-> <<2, 3>>, dtype |-> "F32"],
      [name |-> NameW, shape |-> <<3, 2>>, dtype |-> "F16"],
      [name |-> NameW, shape |-> <<4>>,    dtype |-> "F32"],
      [name |-> NameW, shape |-> <<2, 3>>, dtype |-> "U16"],
      [name |-> NameB, shape |-> <<4>>,    dtype |-> "BF16"],
      [name |-> NameX, shape |-> <<4>>,    dtype |-> "U32"],
      [name |-> NameR, shape |-> <<2>>,    dtype |-> "F32"] }

AllNames == {t.name : t \in TensorPool}

(* A shard file: unreadable (open, mmap or deserialize fails), or a         *)
(* directory of tensors with pairwise distinct names.                       *)
ShardFiles ==
    { [readable |-> FALSE, tensors |-> {}] } \cup
    { [readable |-> TRUE, tensors |-> ts] :
        ts \in { s \in SUBSET TensorPool :
                   \A t1, t2 \in s : t1.name = t2.name => t1 = t2 } }

MaxShards == 2

ShardLists == UNION { [1..n -> ShardFiles] : n \in 0..MaxShards }

Remove(f, k) == [n \in DOMAIN f \ {k} |-> f[n]]

(* What a routine returned: Ok, Err (a propagated error) or panic, with the *)
(* parts of its message.                                                    *)
Result(tag, text, count, names, shapes) ==
    [tag |-> tag, text |-> text, count |-> count, names |-> names,
     shapes |-> shapes]

NoResult == Result("none", "", 0, {}, <<>>)

----------------------------------------------------------------------------
(* profile_model                                                            *)
(*                                                                          *)
(* Memory is counted in MiB.  f64 arithmetic is modelled with a significand *)
(* of MantissaBits bits (53 in f64) and round-to-nearest, ties-to-even; a   *)
(* float is a numerator over 2^FracBits.  Device memory sizes stay below    *)
(* 2^MantissaBits, as real sizes stay below 2^53, so `gpu_mem as f64` is    *)
(* exact and only the product with the fraction rounds.                     *)

MantissaBits == 12

FracBits == MantissaBits

MaxEltSize == 3

max_cpu == 2048

no_gpu_cache_size == 512

RECURSIVE BitLen(_)
BitLen(n) == IF n = 0 THEN 0 ELSE 1 + BitLen(n \div 2)

(* The nearest float to n / 2^FracBits, as a numerator over 2^FracBits.     *)
RoundToFloat(n) ==
    IF BitLen(n) <= MantissaBits
    THEN n
    ELSE LET unit == 2 ^ (BitLen(n) - MantissaBits)
             lo   == n % unit
             base == n - lo
         IN  IF 2 * lo > unit \/ (2 * lo = unit /\ (base \div unit) % 2 = 1)
             THEN base + unit
             ELSE base

(* `m as f64`                                                               *)
as_f64(m) == RoundToFloat(m * 2 ^ FracBits)

(* a * b in f64, for floats a and b given as numerators over 2^FracBits;    *)
(* a is a whole number here, so a * b / 2^FracBits is again a numerator.    *)
f64_mul(a, b) == RoundToFloat((a \div 2 ^ FracBits) * b)

(* `x as isize` for a float x >= 0: truncation.                             *)
as_isize(x) == x \div 2 ^ FracBits

GpuMemSizes == {0, 3, 1000, 3000, 3072, 4095}

Fractions ==
    {0, 2 ^ (FracBits - 1), (2 ^ FracBits) \div 3, (9 * 2 ^ FracBits) \div 10,
     2 ^ FracBits}

Peaks == {0, 1, 700, 2700, 4000}

NoCacheSize == [tag |-> "none", cpu |-> 0, gpu |-> 0]

Min(a, b) == IF a <= b THEN a ELSE b

PmInit ==
    /\ gpu_mem \in GpuMemSizes
    /\ frac \in Fractions
    /\ dev_peak \in Peaks
    /\ elt_size \in 1..MaxEltSize
    /\ pm_pc = "start"
    /\ pm_events = <<>>
    /\ gpu_cache_size = 0
    /\ pm_result = NoCacheSize

(* QueryGpu that profiles whether or not a device reports memory.           *)
QueryGpu_always_profile ==
    /\ pm_pc = "start"
    /\ pm_pc' = "batch"
    /\ UNCHANGED <<gpu_mem, frac, dev_peak, elt_size, pm_events,
                   gpu_cache_size, pm_result>>
    /\ UNCHANGED not_pm

(* let gpu_mem = gpu_memory_size(device); if gpu_mem > 0 ... else 512 MiB   *)
QueryGpu ==
    /\ pm_pc = "start"
    /\ IF gpu_mem > 0
       THEN /\ pm_pc' = "batch"
            /\ UNCHANGED gpu_cache_size
       ELSE /\ gpu_cache_size' = no_gpu_cache_size
            /\ pm_pc' = "size"
    /\ UNCHANGED <<gpu_mem, frac, dev_peak, elt_size, pm_events, pm_result>>
    /\ UNCHANGED not_pm

(* BatchInfoBuilder::new(config.clone()).profile_run()                      *)
ProfileRun ==
    /\ pm_pc = "batch"
    /\ pm_events' = Append(pm_events, "profile_run")
    /\ pm_pc' = "reset"
    /\ UNCHANGED <<gpu_mem, frac, dev_peak, elt_size, gpu_cache_size,
                   pm_result>>
    /\ UNCHANGED not_pm

(* ResetStats that leaves the statistics of the device as they are.         *)
ResetStats_skip ==
    /\ pm_pc = "reset"
    /\ pm_pc' = "forward"
    /\ UNCHANGED <<gpu_mem, frac, dev_peak, elt_size, pm_events,
                   gpu_cache_size, pm_result>>
    /\ UNCHANGED not_pm

(* reset_mem_stats(device)                                                  *)
ResetStats ==
    /\ pm_pc = "reset"
    /\ pm_events' = Append(pm_events, "reset_mem_stats")
    /\ pm_pc' = "forward"
    /\ UNCHANGED <<gpu_mem, frac, dev_peak, elt_size, gpu_cache_size,
                   pm_result>>
    /\ UNCHANGED not_pm

(* let _logits = model.forward(&mut info)                                   *)
Forward ==
    /\ pm_pc = "forward"
    /\ pm_events' = Append(pm_events, "forward")
    /\ pm_pc' = "peak"
    /\ UNCHANGED <<gpu_mem, frac, dev_peak, elt_size, gpu_cache_size,
                   pm_result>>
    /\ UNCHANGED not_pm

(* ReadPeak without the test of left < 0.                                   *)
ReadPeak_no_check ==
    /\ pm_pc = "peak"
    /\ pm_events' = Append(pm_events, "gpu_peak_allocated_bytes")
    /\ gpu_cache_size' = as_isize(f64_mul(as_f64(gpu_mem), frac)) - dev_peak
    /\ pm_pc' = "size"
    /\ UNCHANGED <<gpu_mem, frac, dev_peak, elt_size, pm_result>>
    /\ UNCHANGED not_pm

(* peak, left = (gpu_mem as f64 * frac) as isize - peak, panic if left < 0  *)
ReadPeak ==
    /\ pm_pc = "peak"
    /\ pm_events' = Append(pm_events, "gpu_peak_allocated_bytes")
    /\ LET peak == dev_peak
           left == as_isize(f64_mul(as_f64(gpu_mem), frac)) - peak
       IN  IF left < 0
           THEN /\ pm_result' = [tag |-> "panic", cpu |-> 0, gpu |-> 0]
                /\ pm_pc' = "done"
                /\ UNCHANGED gpu_cache_size
           ELSE /\ gpu_cache_size' = left
                /\ pm_pc' = "size"
                /\ UNCHANGED pm_result
    /\ UNCHANGED <<gpu_mem, frac, dev_peak, elt_size>>
    /\ UNCHANGED not_pm

(* SizeCache that takes the larger of the cap and the device budget.        *)
SizeCache_max ==
    /\ pm_pc = "size"
    /\ LET cpu_cache_size ==
               IF max_cpu >= gpu_cache_size THEN max_cpu ELSE gpu_cache_size
       IN  pm_result' = [tag |-> "CacheSize",
                         cpu |-> cpu_cache_size \div elt_size,
                         gpu |-> gpu_cache_size \div elt_size]
    /\ pm_pc' = "log"
    /\ UNCHANGED <<gpu_mem, frac, dev_peak, elt_size, pm_events,
                   gpu_cache_size>>
    /\ UNCHANGED not_pm

(* cpu_cache_size = min(max_cpu, gpu_cache_size); r = CacheSize { .. }      *)
SizeCache ==
    /\ pm_pc = "size"
    /\ LET cpu_cache_size == Min(max_cpu, gpu_cache_size)
       IN  pm_result' = [tag |-> "CacheSize",
                         cpu |-> cpu_cache_size \div elt_size,
                         gpu |-> gpu_cache_size \div elt_size]
    /\ pm_pc' = "log"
    /\ UNCHANGED <<gpu_mem, frac, dev_peak, elt_size, pm_events,
                   gpu_cache_size>>
    /\ UNCHANGED not_pm

(* token_kv_size, log::info!(...); r  (block_size is a positive setting)    *)
LogAndReturn ==
    /\ pm_pc = "log"
    /\ pm_pc' = "done"
    /\ UNCHANGED <<gpu_mem, frac, dev_peak, elt_size, pm_events,
                   gpu_cache_size, pm_result>>
    /\ UNCHANGED not_pm

PmNext ==
    \/ QueryGpu
    \/ ProfileRun
    \/ ResetStats
    \/ Forward
    \/ ReadPeak
    \/ SizeCache
    \/ LogAndReturn

----------------------------------------------------------------------------
(* load_model_config and load_one_config                                    *)

Schemas == <<"llama", "phi">>

MaxProfileStep == 1

(* config.json: unreadable, or bytes that parse under a set of schemas;     *)
(* the tokenizer: not found, or found with a vocabulary size.               *)
ConfigInputs ==
    [readable : BOOLEAN,
     parses : SUBSET {"llama", "phi"},
     tokenizer : {[found |-> FALSE, vocab_size |-> 0],
                  [found |-> TRUE, vocab_size |-> 32000],
                  [found |-> TRUE, vocab_size |-> 50257]},
     profile_step_no : 0..MaxProfileStep]

NoConfig == [schema |-> "none", tok_vocab_size |-> 0, profile_step_no |-> 0]

NoCfgResult == [tag |-> "none", cfg |-> NoConfig, text |-> <<>>]

(* The lines of a token sequence: each "\n" token ends one line.            *)
RECURSIVE Lines(_)
Lines(text) ==
    IF text = <<>> THEN <<>>
    ELSE LET k == CHOOSE i \in 1..(Len(text) + 1) :
                    /\ i = Len(text) + 1 \/ text[i] = "\n"
                    /\ \A j \in 1..(i - 1) : text[j] # "\n"
         IN  IF k > Len(text)
             THEN <<text>>
             ELSE <<SubSeq(text, 1, k - 1)>> \o Lines(SubSeq(text, k + 1, Len(text)))

CfgInit ==
    /\ cfg_in \in ConfigInputs
    /\ cfg_pc = "read"
    /\ cfg = NoConfig
    /\ err = <<>>
    /\ attempts = <<>>
    /\ cfg_result = NoCfgResult

(* let bytes = repo.read("config.json")?; let mut err = String::new();      *)
ReadConfig ==
    /\ cfg_pc = "read"
    /\ IF cfg_in.readable
       THEN /\ cfg_pc' = "llama"
            /\ UNCHANGED cfg_result
       ELSE /\ cfg_result' = [tag |-> "Err", cfg |-> NoConfig,
                              text |-> <<"cannot read config.json">>]
            /\ cfg_pc' = "done"
    /\ UNCHANGED <<cfg_in, cfg, err, attempts>>
    /\ UNCHANGED not_cfg

(* load_one_config::<T>(&mut err, args, model_args, name, &bytes)           *)
load_one_config(name, next_pc) ==
    /\ attempts' = Append(attempts, name)
    /\ IF name \in cfg_in.parses
       THEN /\ cfg' = [schema |-> name, tok_vocab_size |-> 0,
                       profile_step_no |-> 0]
            /\ UNCHANGED err
       ELSE /\ err' = err \o <<name, ": ", "serde error", "\n">>
            /\ UNCHANGED cfg
    /\ cfg_pc' = next_pc
    /\ UNCHANGED <<cfg_in, cfg_result>>
    /\ UNCHANGED not_cfg

TryLlama ==
    /\ cfg_pc = "llama"
    /\ load_one_config(Schemas[1], "or_else")

(* TryPhi that runs whether or not llama matched.                           *)
TryPhi_always ==
    /\ cfg_pc = "or_else"
    /\ load_one_config(Schemas[2], "match")

(* .or_else(|| load_one_config::<phi::PhiConfig>(..)): only after a None.   *)
TryPhi ==
    /\ cfg_pc = "or_else"
    /\ IF cfg.schema = "none"
       THEN load_one_config(Schemas[2], "match")
       ELSE /\ cfg_pc' = "match"
            /\ UNCHANGED <<cfg_in, cfg, err, attempts, cfg_result>>
            /\ UNCHANGED not_cfg

(* match cfg { Some(v) => find_tokenizer ...; Ok(v), None => bail!(..) }    *)
MatchCfg ==
    /\ cfg_pc = "match"
    /\ IF cfg.schema # "none"
       THEN IF ~cfg_in.tokenizer.found
            THEN /\ cfg_result' = [tag |-> "Err", cfg |-> NoConfig,
                                   text |-> <<"tokenizer not found">>]
                 /\ UNCHANGED cfg
            ELSE /\ cfg' = [cfg EXCEPT
                              !.tok_vocab_size = cfg_in.tokenizer.vocab_size,
                              !.profile_step_no = cfg_in.profile_step_no]
                 /\ cfg_result' = [tag |-> "Ok", cfg |-> cfg', text |-> <<>>]
       ELSE /\ cfg_result' = [tag |-> "Err", cfg |-> NoConfig,
                              text |-> <<"failed to load model config:", "\n">>
                                       \o err]
            /\ UNCHANGED cfg
    /\ cfg_pc' = "done"
    /\ UNCHANGED <<cfg_in, err, attempts>>
    /\ UNCHANGED not_cfg

CfgNext ==
    \/ ReadConfig
    \/ TryLlama
    \/ TryPhi
    \/ MatchCfg

CfgIdle ==
    /\ cfg_in = [readable |-> FALSE, parses |-> {},
                 tokenizer |-> [found |-> FALSE, vocab_size |-> 0],
                 profile_step_no |-> 0]
    /\ cfg_pc = "idle"
    /\ cfg = NoConfig
    /\ err = <<>>
    /\ attempts = <<>>
    /\ cfg_result = NoCfgResult

----------------------------------------------------------------------------
(* model_filenames                                                          *)
(*                                                                          *)
(* File names are sequences of characters; Vec<String>::sort orders them    *)
(* by their bytes.                                                          *)

CharCode(c) ==
    CASE c = "-" -> 45
      [] c = "." -> 46
      [] c = "0" -> 48
      [] c = "1" -> 49
      [] c = "2" -> 50
      [] c = "a" -> 97
      [] c = "d" -> 100
      [] c = "e" -> 101
      [] c = "f" -> 102
      [] c = "l" -> 108
      [] c = "m" -> 109
      [] c = "n" -> 110
      [] c = "o" -> 111
      [] c = "r" -> 114
      [] c = "s" -> 115
      [] c = "t" -> 116
      [] c = "u" -> 117

(* a < b for strings: the first differing byte decides, a prefix is less.   *)
StrLess(a, b) ==
    \E k \in 1..(Len(b)) :
        /\ \A j \in 1..(k - 1) : j <= Len(a) /\ a[j] = b[j]
        /\ \/ k = Len(a) + 1
           \/ k <= Len(a) /\ CharCode(a[k]) < CharCode(b[k])

RECURSIVE SortedSeq(_)
(* The elements of a set of strings in ascending order.                     *)
SortedSeq(set) ==
    IF set = {} THEN <<>>
    ELSE LET least == CHOOSE x \in set : \A y \in set \ {x} : StrLess(x, y)
         IN  <<least>> \o SortedSeq(set \ {least})

model_safetensors ==
    <<"m", "o", "d", "e", "l", ".", "s", "a", "f", "e", "t", "e", "n", "s",
      "o", "r", "s">>

model_safetensors_rust == model_safetensors \o <<"-", "r", "u", "s", "t">>

ShardNames == {<<"s", "2">>, <<"s", "1", "0">>, <<"s", "1">>}

MaxEntries == 3

(* A value of weight_map: a JSON string, or some other JSON value.          *)
JsonValues ==
    {[is_str |-> TRUE, str |-> n] : n \in ShardNames} \cup
    {[is_str |-> FALSE, str |-> <<>>]}

(* The index document: absent, present but unreadable, not JSON, JSON       *)
(* whose weight_map is not an object, or JSON with a weight_map.            *)
IndexDocuments ==
    {[state |-> st, weight_map |-> <<>>] :
        st \in {"absent", "unreadable", "not_json", "no_weight_map"}} \cup
    {[state |-> "json", weight_map |-> wm] :
        wm \in UNION {[1..n -> JsonValues] : n \in 0..MaxEntries}}

Repos ==
    [index : IndexDocuments,
     is_local : BOOLEAN,
     found : SUBSET (ShardNames \cup {model_safetensors, model_safetensors_rust})]

NoPaths == [tag |-> "none", paths |-> <<>>]

(* repo.read(name) for the index document: the bytes, or an error.          *)
repo_read_is_ok(r) == r.index.state \notin {"absent", "unreadable"}

(* repo.get(name)                                                           *)
repo_get_is_ok(r, name) == name \in r.found

PathOf(name) == <<"/">> \o name

MfInit ==
    /\ repo \in Repos
    /\ mf_pc = "read"
    /\ shard_names = <<>>
    /\ branch = "none"
    /\ gets = <<>>
    /\ paths = <<>>
    /\ mf_result = NoPaths

(* let idx = repo.read(..); if let Ok(idx) = idx { from_slice(&idx)? ..     *)
ReadIndex ==
    /\ mf_pc = "read"
    /\ IF repo_read_is_ok(repo)
       THEN /\ branch' = "index"
            /\ IF repo.index.state = "not_json"
               THEN /\ mf_result' = [tag |-> "Err", paths |-> <<>>]
                    /\ mf_pc' = "done"
               ELSE /\ mf_pc' = "weight_map"
                    /\ UNCHANGED mf_result
       ELSE /\ branch' = "fallback"
            /\ mf_pc' = "fallback"
            /\ UNCHANGED mf_result
    /\ UNCHANGED <<repo, shard_names, gets, paths>>
    /\ UNCHANGED not_mf

(* CollectNames that keeps the values as the document lists them.           *)
CollectNames_as_listed ==
    /\ mf_pc = "weight_map"
    /\ LET wm == repo.index.weight_map
       IN  IF \/ repo.index.state = "no_weight_map"
              \/ \E i \in 1..Len(wm) : ~wm[i].is_str
           THEN /\ mf_result' = [tag |-> "panic", paths |-> <<>>]
                /\ mf_pc' = "done"
                /\ UNCHANGED shard_names
           ELSE /\ shard_names' = [i \in 1..Len(wm) |-> wm[i].str]
                /\ mf_pc' = "resolve"
                /\ UNCHANGED mf_result
    /\ UNCHANGED <<repo, branch, gets, paths>>
    /\ UNCHANGED not_mf

(* st_index["weight_map"].as_object().unwrap().values()...; HashSet; sort   *)
CollectNames ==
    /\ mf_pc = "weight_map"
    /\ LET wm == repo.index.weight_map
       IN  IF \/ repo.index.state = "no_weight_map"
              \/ \E i \in 1..Len(wm) : ~wm[i].is_str
           THEN /\ mf_result' = [tag |-> "panic", paths |-> <<>>]
                /\ mf_pc' = "done"
                /\ UNCHANGED shard_names
           ELSE /\ shard_names' = SortedSeq({wm[i].str : i \in 1..Len(wm)})
                /\ mf_pc' = "resolve"
                /\ UNCHANGED mf_result
    /\ UNCHANGED <<repo, branch, gets, paths>>
    /\ UNCHANGED not_mf

(* if repo.is_local() && repo.get("model.safetensors-rust").is_ok() ..      *)
Fallback ==
    /\ mf_pc = "fallback"
    /\ IF repo.is_local
       THEN /\ gets' = Append(gets, model_safetensors_rust)
            /\ shard_names' =
                 IF repo_get_is_ok(repo, model_safetensors_rust)
                 THEN <<model_safetensors_rust>>
                 ELSE <<model_safetensors>>
       ELSE /\ shard_names' = <<model_safetensors>>
            /\ UNCHANGED gets
    /\ mf_pc' = "resolve"
    /\ UNCHANGED <<repo, branch, paths, mf_result>>
    /\ UNCHANGED not_mf

(* filenames.iter().map(|f| repo.get(f)).collect::<Result<Vec<_>>>()?       *)
ResolveOne ==
    /\ mf_pc = "resolve"
    /\ Len(paths) < Len(shard_names)
    /\ LET f == shard_names[Len(paths) + 1]
       IN  /\ gets' = Append(gets, f)
           /\ IF repo_get_is_ok(repo, f)
              THEN /\ paths' = Append(paths, PathOf(f))
                   /\ UNCHANGED <<mf_pc, mf_result>>
              ELSE /\ mf_result' = [tag |-> "Err", paths |-> <<>>]
                   /\ mf_pc' = "done"
                   /\ UNCHANGED paths
    /\ UNCHANGED <<repo, shard_names, branch>>
    /\ UNCHANGED not_mf

(* Ok(filenames)                                                            *)
ReturnPaths ==
    /\ mf_pc = "resolve"
    /\ Len(paths) = Len(shard_names)
    /\ mf_result' = [tag |-> "Ok", paths |-> paths]
    /\ mf_pc' = "done"
    /\ UNCHANGED <<repo, shard_names, branch, gets, paths>>
    /\ UNCHANGED not_mf

MfNext ==
    \/ ReadIndex
    \/ CollectNames
    \/ Fallback
    \/ ResolveOne
    \/ ReturnPaths

MfIdle ==
    /\ repo = [index |-> [state |-> "absent", weight_map |-> <<>>],
               is_local |-> FALSE, found |-> {}]
    /\ mf_pc = "idle"
    /\ shard_names = <<>>
    /\ branch = "none"
    /\ gets = <<>>
    /\ paths = <<>>
    /\ mf_result = NoPaths

----------------------------------------------------------------------------
(* load_model                                                               *)

LmInit ==
    /\ filenames \in ShardLists
    /\ vars = Declared
    /\ slots = [n \in DOMAIN Declared |-> <<>>]
    /\ lm_pc = "open"
    /\ idx = 1
    /\ todo = {}
    /\ view = {}
    /\ mapped = {}
    /\ opened = <<>>
    /\ bar = 0
    /\ warnings = <<>>
    /\ finalized = 0
    /\ lm_result = NoResult

(* for f in &filenames: File::open, mmap, SafeTensors::deserialize.         *)
OpenShard ==
    /\ lm_pc = "open"
    /\ idx <= Len(filenames)
    /\ opened' = Append(opened, idx)
    /\ IF filenames[idx].readable
       THEN /\ mapped' = mapped \cup {idx}
            /\ todo' = filenames[idx].tensors
            /\ lm_pc' = "names"
            /\ UNCHANGED lm_result
       ELSE /\ lm_result' = Result("Err", "open/mmap/deserialize", 0, {}, <<>>)
            /\ lm_pc' = "done"
            /\ UNCHANGED <<mapped, todo>>
    /\ UNCHANGED <<filenames, vars, slots, idx, view, bar,
                   warnings, finalized>>
    /\ UNCHANGED not_lm

(* SkipTensor that fails the load on a second tensor of a declared name.    *)
SkipTensor_reject_duplicate ==
    /\ lm_pc = "names"
    /\ \E t \in todo :
         /\ t.name \notin DOMAIN vars
         /\ IF t.name \in DOMAIN Declared
            THEN /\ lm_result' = Result("Err", "duplicate tensor", 0, {}, <<>>)
                 /\ lm_pc' = "done"
                 /\ mapped' = {}
                 /\ UNCHANGED <<warnings, todo>>
            ELSE /\ warnings' = IF ends_with(t.name, inv_freq)
                                 THEN warnings
                                 ELSE Append(warnings, t.name)
                 /\ todo' = todo \ {t}
                 /\ UNCHANGED <<lm_pc, mapped, lm_result>>
    /\ UNCHANGED <<filenames, vars, slots, idx, view, opened, bar, finalized>>
    /\ UNCHANGED not_lm

(* SkipTensor that warns about every unmatched tensor.                      *)
SkipTensor_warn_all ==
    /\ lm_pc = "names"
    /\ \E t \in todo :
         /\ t.name \notin DOMAIN vars
         /\ warnings' = Append(warnings, t.name)
         /\ todo' = todo \ {t}
    /\ UNCHANGED <<filenames, vars, slots, lm_pc, idx, view,
                   mapped, opened, bar, finalized, lm_result>>
    /\ UNCHANGED not_lm

(* A tensor whose name is not in vars: warn unless ".inv_freq"; continue.   *)
SkipTensor ==
    /\ lm_pc = "names"
    /\ \E t \in todo :
         /\ t.name \notin DOMAIN vars
         /\ warnings' = IF ends_with(t.name, inv_freq)
                         THEN warnings
                         ELSE Append(warnings, t.name)
         /\ todo' = todo \ {t}
    /\ UNCHANGED <<filenames, vars, slots, lm_pc, idx, view,
                   mapped, opened, bar, finalized, lm_result>>
    /\ UNCHANGED not_lm

(* read_tensor for a tensor whose name is in vars.                          *)
ReadTensor ==
    /\ lm_pc = "names"
    /\ \E t \in todo :
         /\ t.name \in DOMAIN vars
         /\ IF kind_from_dt(t.dtype) = "panic"
            THEN /\ lm_result' = Result("panic", "unsupported dtype", 0, {}, <<>>)
                 /\ lm_pc' = "done"
                 /\ mapped' = {}
                 /\ UNCHANGED view
            ELSE /\ view' = view \cup
                      {[shard |-> idx, tensor |-> t,
                        kind |-> kind_from_dt(t.dtype)]}
                 /\ lm_pc' = "copy"
                 /\ UNCHANGED <<mapped, lm_result>>
    /\ UNCHANGED <<filenames, vars, slots, idx, todo, opened,
                   bar, warnings, finalized>>
    /\ UNCHANGED not_lm

RECURSIVE Numel(_)
(* The element count of a shape: the product of its dimensions.             *)
Numel(shape) ==
    IF shape = <<>> THEN 1 ELSE Head(shape) * Numel(Tail(shape))

(* CopyTensor that compares element counts in place of shapes.              *)
CopyTensor_numel ==
    /\ lm_pc = "copy"
    /\ \E v \in view :
         LET name == v.tensor.name
             var  == vars[name]
         IN  /\ vars' = Remove(vars, name)
             /\ view' = view \ {v}
             /\ IF Numel(var) = Numel(v.tensor.shape)
                THEN /\ slots' = [slots EXCEPT ![name] =
                                    Append(@, [shard |-> v.shard,
                                               kind |-> v.kind])]
                     /\ bar' = bar + 1
                     /\ todo' = todo \ {v.tensor}
                     /\ lm_pc' = "names"
                     /\ UNCHANGED <<mapped, lm_result>>
                ELSE /\ lm_result' = Result("panic",
                           "assertion failed: var.size() == src_tensor.size()",
                           0, {}, <<>>)
                     /\ lm_pc' = "done"
                     /\ mapped' = {}
                     /\ UNCHANGED <<slots, bar, todo>>
    /\ UNCHANGED <<filenames, idx, opened, warnings, finalized>>
    /\ UNCHANGED not_lm

(* CopyTensor that reads the slot with get instead of remove.               *)
CopyTensor_keep_entry ==
    /\ lm_pc = "copy"
    /\ \E v \in view :
         LET name == v.tensor.name
             var  == vars[name]
         IN  /\ vars' = vars
             /\ view' = view \ {v}
             /\ IF var = v.tensor.shape
                THEN /\ slots' = [slots EXCEPT ![name] =
                                    Append(@, [shard |-> v.shard,
                                               kind |-> v.kind])]
                     /\ bar' = bar + 1
                     /\ todo' = todo \ {v.tensor}
                     /\ lm_pc' = "names"
                     /\ UNCHANGED <<mapped, lm_result>>
                ELSE /\ lm_result' = Result("panic",
                           "assertion failed: var.size() == src_tensor.size()",
                           0, {}, <<>>)
                     /\ lm_pc' = "done"
                     /\ mapped' = {}
                     /\ UNCHANGED <<slots, bar, todo>>
    /\ UNCHANGED <<filenames, idx, opened, warnings, finalized>>
    /\ UNCHANGED not_lm

(* vars.remove, assert!(var.size() == src_tensor.size()), f_copy_, bar.inc. *)
(* f_copy_ converts between any two of the ten kinds and is given tensors   *)
(* of equal size here, so its error branch is not taken.                    *)
CopyTensor ==
    /\ lm_pc = "copy"
    /\ \E v \in view :
         LET name == v.tensor.name
             var  == vars[name]
         IN  /\ vars' = Remove(vars, name)
             /\ view' = view \ {v}
             /\ IF var = v.tensor.shape
                THEN /\ slots' = [slots EXCEPT ![name] =
                                    Append(@, [shard |-> v.shard,
                                               kind |-> v.kind])]
                     /\ bar' = bar + 1
                     /\ todo' = todo \ {v.tensor}
                     /\ lm_pc' = "names"
                     /\ UNCHANGED <<mapped, lm_result>>
                ELSE /\ lm_result' = Result("panic",
                           "assertion failed: var.size() == src_tensor.size()",
                           0, {}, <<>>)
                     /\ lm_pc' = "done"
                     /\ mapped' = {}
                     /\ UNCHANGED <<slots, bar, todo>>
    /\ UNCHANGED <<filenames, idx, opened, warnings, finalized>>
    /\ UNCHANGED not_lm

(* CloseShard that keeps the mapping of the shard alive.                     *)
CloseShard_keep_mapping ==
    /\ lm_pc = "names"
    /\ todo = {}
    /\ idx' = idx + 1
    /\ lm_pc' = "open"
    /\ UNCHANGED <<filenames, vars, slots, todo, view, mapped, opened,
                   bar, warnings, finalized, lm_result>>
    /\ UNCHANGED not_lm

(* End of one iteration of the shard loop: the mapping goes out of scope.   *)
CloseShard ==
    /\ lm_pc = "names"
    /\ todo = {}
    /\ mapped' = mapped \ {idx}
    /\ idx' = idx + 1
    /\ lm_pc' = "open"
    /\ UNCHANGED <<filenames, vars, slots, todo, view, opened,
                   bar, warnings, finalized, lm_result>>
    /\ UNCHANGED not_lm

LoopExit ==
    /\ lm_pc = "open"
    /\ idx > Len(filenames)
    /\ lm_pc' = "check"
    /\ UNCHANGED <<filenames, vars, slots, idx, todo, view,
                   mapped, opened, bar, warnings, finalized, lm_result>>
    /\ UNCHANGED not_lm

(* CheckVars with the threshold off by one: vars.len() > 1.                 *)
CheckVars_off_by_one ==
    /\ lm_pc = "check"
    /\ IF Cardinality(DOMAIN vars) > 1
       THEN /\ lm_result' = Result("Err", "variables not found in the model",
                                   Cardinality(DOMAIN vars), DOMAIN vars, <<>>)
            /\ lm_pc' = "done"
       ELSE /\ lm_pc' = "finalize"
            /\ UNCHANGED lm_result
    /\ UNCHANGED <<filenames, vars, slots, idx, todo, view,
                   mapped, opened, bar, warnings, finalized>>
    /\ UNCHANGED not_lm

(* if vars.len() > 0 { bail!(...) }                                         *)
CheckVars ==
    /\ lm_pc = "check"
    /\ IF Cardinality(DOMAIN vars) > 0
       THEN /\ lm_result' = Result("Err", "variables not found in the model",
                                   Cardinality(DOMAIN vars), DOMAIN vars, <<>>)
            /\ lm_pc' = "done"
       ELSE /\ lm_pc' = "finalize"
            /\ UNCHANGED lm_result
    /\ UNCHANGED <<filenames, vars, slots, idx, todo, view,
                   mapped, opened, bar, warnings, finalized>>
    /\ UNCHANGED not_lm

(* Finalize that forgets the call of the hook.                              *)
Finalize_skip_hook ==
    /\ lm_pc = "finalize"
    /\ finalized' = finalized
    /\ lm_pc' = "return"
    /\ UNCHANGED <<filenames, vars, slots, idx, todo, view,
                   mapped, opened, bar, warnings, lm_result>>
    /\ UNCHANGED not_lm

(* bar.finish(); model.finalize();                                          *)
Finalize ==
    /\ lm_pc = "finalize"
    /\ finalized' = finalized + 1
    /\ lm_pc' = "return"
    /\ UNCHANGED <<filenames, vars, slots, idx, todo, view,
                   mapped, opened, bar, warnings, lm_result>>
    /\ UNCHANGED not_lm

(* Ok(model)                                                                *)
Return ==
    /\ lm_pc = "return"
    /\ lm_result' = Result("Ok", "", 0, {}, <<>>)
    /\ lm_pc' = "done"
    /\ UNCHANGED <<filenames, vars, slots, idx, todo, view,
                   mapped, opened, bar, warnings, finalized>>
    /\ UNCHANGED not_lm

LmNext ==
    \/ OpenShard
    \/ SkipTensor
    \/ ReadTensor
    \/ CopyTensor
    \/ CloseShard
    \/ LoopExit
    \/ CheckVars
    \/ Finalize
    \/ Return

(* The state of a routine that is not running.                              *)
LmIdle ==
    /\ filenames = <<>>
    /\ vars = <<>>
    /\ slots = <<>>
    /\ lm_pc = "idle"
    /\ idx = 0
    /\ todo = {}
    /\ view = {}
    /\ mapped = {}
    /\ opened = <<>>
    /\ bar = 0
    /\ warnings = <<>>
    /\ finalized = 0
    /\ lm_result = NoResult

PmIdle ==
    /\ gpu_mem = 0
    /\ frac = 0
    /\ dev_peak = 0
    /\ elt_size = 1
    /\ pm_pc = "idle"
    /\ pm_events = <<>>
    /\ gpu_cache_size = 0
    /\ pm_result = NoCacheSize

----------------------------------------------------------------------------
(* load_aphrodite_engine                                                    *)
(*                                                                          *)
(* The engine assembly runs model_filenames, load_model and profile_model   *)
(* as sub-machines: a Call action starts the callee, the callee's own       *)
(* actions run it to its end, and the next Call action applies `?` (or lets *)
(* a panic unwind) to what it returned.  Calls whose code is in other files *)
(* (Repo::from, build_config, AphroditeEngine::build) return Ok or Err.     *)

NoEngine == [tag |-> "none", stage |-> "none"]

Stage(name, outcome) == [stage |-> name, outcome |-> outcome]

(* The last call has returned (or unwound) with this outcome.               *)
Finish(s, outcome) == [s EXCEPT ![Len(s)].outcome = outcome]

(* What File::open finds behind each path of the repository.                *)
FileAt(path) ==
    CASE path = PathOf(<<"s", "1">>) ->
           [readable |-> TRUE,
            tensors |-> {[name |-> NameW, shape |-> <<2, 3>>, dtype |-> "F32"],
                         [name |-> NameX, shape |-> <<4>>, dtype |-> "U32"]}]
      [] path = PathOf(<<"s", "1", "0">>) ->
           [readable |-> TRUE,
            tensors |-> {[name |-> NameB, shape |-> <<4>>, dtype |-> "BF16"]}]
      [] path = PathOf(<<"s", "2">>) ->
           [readable |-> TRUE,
            tensors |-> {[name |-> NameW, shape |-> <<3, 2>>, dtype |-> "F16"]}]
      [] path = PathOf(model_safetensors) ->
           [readable |-> TRUE,
            tensors |-> {[name |-> NameW, shape |-> <<2, 3>>, dtype |-> "F32"],
                         [name |-> NameB, shape |-> <<4>>, dtype |-> "BF16"]}]
      [] OTHER -> [readable |-> FALSE, tensors |-> {}]

(* The devices the engine is assembled on: what profile_model reads.        *)
Devices ==
    [gpu_mem : {0, 3000}, frac : {2 ^ (FracBits - 1)},
     dev_peak : {700, 2700}, elt_size : {1}]

EngInit ==
    /\ eng_pc = "Repo::from"
    /\ stages = <<>>
    /\ eng_result = NoEngine

(* let repo = Repo::from(&args)?;                                           *)
RepoFrom ==
    /\ eng_pc = "Repo::from"
    /\ \/ /\ repo' \in Repos
          /\ stages' = Append(stages, Stage("Repo::from", "Ok"))
          /\ eng_pc' = "build_config"
          /\ UNCHANGED eng_result
       \/ /\ stages' = Append(stages, Stage("Repo::from", "Err"))
          /\ eng_result' = [tag |-> "Err", stage |-> "Repo::from"]
          /\ eng_pc' = "done"
          /\ UNCHANGED repo
    /\ UNCHANGED <<mf_pc, shard_names, branch, gets, paths, mf_result>>
    /\ UNCHANGED <<lm_vars, pm_vars, cfg_vars>>

(* let aphrodite_config = AphroditeEngine::<TModel>::build_config(..)?;     *)
BuildConfig ==
    /\ eng_pc = "build_config"
    /\ \/ /\ stages' = Append(stages, Stage("build_config", "Ok"))
          /\ eng_pc' = "model_filenames"
          /\ UNCHANGED eng_result
       \/ /\ stages' = Append(stages, Stage("build_config", "Err"))
          /\ eng_result' = [tag |-> "Err", stage |-> "build_config"]
          /\ eng_pc' = "done"
    /\ UNCHANGED <<lm_vars, pm_vars, cfg_vars, mf_vars>>

(* model_filenames(&repo) is entered.                                       *)
CallModelFilenames ==
    /\ eng_pc = "model_filenames"
    /\ mf_pc = "idle"
    /\ mf_pc' = "read"
    /\ stages' = Append(stages, Stage("model_filenames", "running"))
    /\ eng_pc' = "load_model"
    /\ UNCHANGED <<repo, shard_names, branch, gets, paths, mf_result>>
    /\ UNCHANGED <<lm_vars, pm_vars, cfg_vars, eng_result>>

(* CallLoadModel that goes on with the paths collected before a failure.    *)
CallLoadModel_ignore_error ==
    /\ eng_pc = "load_model"
    /\ mf_pc = "done"
    /\ stages' = Append(Finish(stages, mf_result.tag),
                        Stage("load_model", "running"))
    /\ filenames' = [i \in 1..Len(paths) |-> FileAt(paths[i])]
    /\ vars' = Declared
    /\ slots' = [n \in DOMAIN Declared |-> <<>>]
    /\ lm_pc' = "open"
    /\ idx' = 1
    /\ eng_pc' = "profile_model"
    /\ UNCHANGED eng_result
    /\ UNCHANGED <<todo, view, mapped, opened, bar, warnings, finalized,
                   lm_result>>
    /\ UNCHANGED <<pm_vars, cfg_vars, mf_vars>>

(* `?` on what model_filenames returned; Tensor::zeros, reset_mem_stats;    *)
(* then load_model(&aphrodite_config, filenames) is entered.                *)
CallLoadModel ==
    /\ eng_pc = "load_model"
    /\ mf_pc = "done"
    /\ IF mf_result.tag = "Ok"
       THEN /\ stages' = Append(Finish(stages, "Ok"),
                                Stage("load_model", "running"))
            /\ filenames' = [i \in 1..Len(mf_result.paths) |->
                                FileAt(mf_result.paths[i])]
            /\ vars' = Declared
            /\ slots' = [n \in DOMAIN Declared |-> <<>>]
            /\ lm_pc' = "open"
            /\ idx' = 1
            /\ eng_pc' = "profile_model"
            /\ UNCHANGED eng_result
       ELSE /\ stages' = Finish(stages, mf_result.tag)
            /\ eng_result' = [tag |-> mf_result.tag,
                              stage |-> "model_filenames"]
            /\ eng_pc' = "done"
            /\ UNCHANGED <<filenames, vars, slots, lm_pc, idx>>
    /\ UNCHANGED <<todo, view, mapped, opened, bar, warnings, finalized,
                   lm_result>>
    /\ UNCHANGED <<pm_vars, cfg_vars, mf_vars>>

(* CallProfileModel that profiles whatever load_model returned.             *)
CallProfileModel_ignore_error ==
    /\ eng_pc = "profile_model"
    /\ lm_pc = "done"
    /\ stages' = Append(Finish(stages, lm_result.tag),
                        Stage("profile_model", "running"))
    /\ \E d \in Devices :
         /\ gpu_mem' = d.gpu_mem
         /\ frac' = d.frac
         /\ dev_peak' = d.dev_peak
         /\ elt_size' = d.elt_size
    /\ pm_pc' = "start"
    /\ eng_pc' = "CacheEngine::new"
    /\ UNCHANGED eng_result
    /\ UNCHANGED <<pm_events, gpu_cache_size, pm_result>>
    /\ UNCHANGED <<lm_vars, cfg_vars, mf_vars>>

(* `?` on what load_model returned; then profile_model(config, &model) is   *)
(* entered, on whatever device the engine runs on.                          *)
CallProfileModel ==
    /\ eng_pc = "profile_model"
    /\ lm_pc = "done"
    /\ IF lm_result.tag = "Ok"
       THEN /\ stages' = Append(Finish(stages, "Ok"),
                                Stage("profile_model", "running"))
            /\ \E d \in Devices :
                 /\ gpu_mem' = d.gpu_mem
                 /\ frac' = d.frac
                 /\ dev_peak' = d.dev_peak
                 /\ elt_size' = d.elt_size
            /\ pm_pc' = "start"
            /\ eng_pc' = "CacheEngine::new"
            /\ UNCHANGED eng_result
       ELSE /\ stages' = Finish(stages, lm_result.tag)
            /\ eng_result' = [tag |-> lm_result.tag, stage |-> "load_model"]
            /\ eng_pc' = "done"
            /\ UNCHANGED <<gpu_mem, frac, dev_peak, elt_size, pm_pc>>
    /\ UNCHANGED <<pm_events, gpu_cache_size, pm_result>>
    /\ UNCHANGED <<lm_vars, cfg_vars, mf_vars>>

(* profile_model returns a CacheSize or panics; with the CacheSize:         *)
(* CacheEngine::new, BlockSpaceManager::new, build_seq_mgr, TModel::new.    *)
BuildCaches ==
    /\ eng_pc = "CacheEngine::new"
    /\ pm_pc = "done"
    /\ IF pm_result.tag = "CacheSize"
       THEN /\ stages' = Finish(stages, "Ok") \o
                           << Stage("CacheEngine::new", "Ok"),
                              Stage("BlockSpaceManager::new", "Ok"),
                              Stage("build_seq_mgr", "Ok"),
                              Stage("TModel::new", "Ok") >>
            /\ eng_pc' = "AphroditeEngine::build"
            /\ UNCHANGED eng_result
       ELSE /\ stages' = Finish(stages, pm_result.tag)
            /\ eng_result' = [tag |-> pm_result.tag,
                              stage |-> "profile_model"]
            /\ eng_pc' = "done"
    /\ UNCHANGED <<lm_vars, pm_vars, cfg_vars, mf_vars>>

(* AphroditeEngine::build(args, tmodel, block_mgr, aphrodite_config)        *)
Build ==
    /\ eng_pc = "AphroditeEngine::build"
    /\ \E outcome \in {"Ok", "Err"} :
         /\ stages' = Append(stages, Stage("AphroditeEngine::build", outcome))
         /\ eng_result' = [tag |-> outcome, stage |-> "AphroditeEngine::build"]
    /\ eng_pc' = "done"
    /\ UNCHANGED <<lm_vars, pm_vars, cfg_vars, mf_vars>>

EngNext ==
    \/ RepoFrom
    \/ BuildConfig
    \/ CallModelFilenames
    \/ MfNext
    \/ CallLoadModel
    \/ LmNext
    \/ CallProfileModel
    \/ PmNext
    \/ BuildCaches
    \/ Build

EngIdle ==
    /\ eng_pc = "idle"
    /\ stages = <<>>
    /\ eng_result = NoEngine

(* load_model run on its own.                                               *)
InitLoad == LmInit /\ PmIdle /\ CfgIdle /\ MfIdle /\ EngIdle

SpecLoad == InitLoad /\ [][LmNext]_vars_all

(* profile_model run on its own.                                            *)
InitProfile == PmInit /\ LmIdle /\ CfgIdle /\ MfIdle /\ EngIdle

SpecProfile == InitProfile /\ [][PmNext]_vars_all

(* load_model_config run on its own.                                        *)
InitConfig == CfgInit /\ LmIdle /\ PmIdle /\ MfIdle /\ EngIdle

SpecConfig == InitConfig /\ [][CfgNext]_vars_all

(* model_filenames run on its own.                                          *)
InitFilenames == MfInit /\ LmIdle /\ PmIdle /\ CfgIdle /\ EngIdle

SpecFilenames == InitFilenames /\ [][MfNext]_vars_all

(* load_aphrodite_engine, with the routines it calls.                       *)
InitEngine == EngInit /\ LmIdle /\ PmIdle /\ CfgIdle /\ MfIdle

SpecEngine == InitEngine /\ [][EngNext]_vars_all

----------------------------------------------------------------------------
(* Properties of load_model                                                 *)

Shards == 1..Len(filenames)

Supplies(i, n) == \E t \in filenames[i].tensors : t.name = n

AllReadable == \A i \in Shards : filenames[i].readable

(* n appears in exactly one shard, with its slot's shape and a known tag.   *)
SuppliedOnceWell(n) ==
    /\ Cardinality({i \in Shards : Supplies(i, n)}) = 1
    /\ \A i \in Shards : \A t \in filenames[i].tensors :
          t.name = n => t.shape = Declared[n] /\ t.dtype \in KnownDtypes

WellFormed ==
    AllReadable /\ \A n \in DOMAIN Declared : SuppliedOnceWell(n)

Failed(r) == r.tag \in {"Err", "panic"}

LoopCompleted == idx = Len(filenames) + 1

Unsupplied == {n \in DOMAIN Declared : \A i \in Shards : ~Supplies(i, n)}

(* C1: when every declared parameter appears in exactly one shard with the  *)
(* slot's shape and a recognized dtype tag, load_model does not fail, it    *)
(* can always take its next step until it has returned, it returns Ok, and  *)
(* the ParameterTable is empty when it returns.                             *)
C1_WellFormedLoadSucceeds ==
    WellFormed =>
        /\ ~Failed(lm_result)
        /\ lm_pc # "done" => ENABLED LmNext
        /\ lm_pc = "done" => lm_result.tag = "Ok"
        /\ lm_result.tag = "Ok" => DOMAIN vars = {}

C1_Witness ==
    /\ WellFormed
    /\ lm_result.tag = "Ok"
    /\ Len(filenames) = 2
    /\ Len(slots[NameW]) = 1 /\ slots[NameW][1].shard = 2
    /\ Len(slots[NameB]) = 1 /\ slots[NameB][1].shard = 1
    /\ \E t \in filenames[1].tensors : t.name \notin DOMAIN Declared

(* C2: when the shard loop runs to its end (no per-tensor check aborted),   *)
(* load_model fails exactly if some declared parameter was supplied by no   *)
(* shard, and the failure names exactly the unsupplied parameters.          *)
C2_MissingReportedExactly ==
    (lm_pc = "done" /\ LoopCompleted) =>
        /\ Failed(lm_result) <=> Unsupplied # {}
        /\ Failed(lm_result) =>
              /\ lm_result.tag = "Err"
              /\ lm_result.names = Unsupplied
              /\ lm_result.count = Cardinality(Unsupplied)

C2_Witness ==
    /\ lm_pc = "done"
    /\ LoopCompleted
    /\ Len(filenames) = 2
    /\ Unsupplied = {NameB}
    /\ lm_result.tag = "Err"
    /\ lm_result.names = {NameB}
    /\ bar = 1

(* A view whose shape differs from the shape of the slot of its name.       *)
Mismatched(v) ==
    v.tensor.name \in DOMAIN vars /\ vars[v.tensor.name] # v.tensor.shape

(* C3: when the copy step meets a tensor whose shape does not match its     *)
(* slot, the load fails, the failure carries the source shape and the slot  *)
(* shape, the entry is still in the ParameterTable and no slot is written.  *)
C3_MismatchReportedEntryKept ==
    [][ \A v \in view :
          (lm_pc = "copy" /\ Mismatched(v)) =>
              /\ Failed(lm_result')
              /\ lm_result'.shapes = <<v.tensor.shape, vars[v.tensor.name]>>
              /\ v.tensor.name \in DOMAIN vars'
              /\ slots' = slots ]_vars_all

(* The first shard that declares name n, if any.                            *)
FirstSupplier(i, n) ==
    Supplies(i, n) /\ \A j \in 1..(i - 1) : ~Supplies(j, n)

(* C4 as stated: a load that returns Ok has met no tensor with a dtype tag  *)
(* outside the recognized set, whatever the tensor's name.                  *)
C4_AnyUnknownDtypeAborts ==
    lm_result.tag = "Ok" =>
        \A i \in Shards : \A t \in filenames[i].tensors :
            t.dtype \in KnownDtypes

(* C4 amended: a tensor with an unrecognized dtype tag whose name is in the *)
(* ParameterTable when it is visited (a declared name, first supplied by    *)
(* this shard) aborts the load in that shard with its slot unwritten, and   *)
(* only such a tensor aborts it for its dtype; no view and no copy ever     *)
(* exists for a tensor with an unrecognized tag, so nothing is copied under *)
(* a default kind.                                                          *)
C4_UnknownDtypeOfTableEntryAborts ==
    /\ \A i \in Shards : \A t \in filenames[i].tensors :
          ( /\ t.dtype \notin KnownDtypes
            /\ t.name \in DOMAIN Declared
            /\ FirstSupplier(i, t.name)
            /\ \A j \in 1..i : filenames[j].readable ) =>
              /\ idx <= i
              /\ lm_result.tag # "Ok"
              /\ slots[t.name] = <<>>
              /\ (lm_pc = "done" => Failed(lm_result))
    /\ (lm_result.tag = "panic" /\ lm_result.text = "unsupported dtype") =>
          \E t \in filenames[idx].tensors :
              /\ t.dtype \notin KnownDtypes
              /\ t.name \in DOMAIN Declared
              /\ FirstSupplier(idx, t.name)
    /\ \A v \in view : v.tensor.dtype \in KnownDtypes
    /\ \A n \in DOMAIN slots : \A k \in 1..Len(slots[n]) :
          \E t \in filenames[slots[n][k].shard].tensors :
              /\ t.name = n
              /\ t.dtype \in KnownDtypes
              /\ slots[n][k].kind # "panic"

C4_Witness ==
    /\ lm_result.tag = "panic"
    /\ lm_result.text = "unsupported dtype"
    /\ idx = 2
    /\ Len(filenames) = 2
    /\ \E t \in filenames[2].tensors :
          t.name = NameW /\ t.dtype = "U16" /\ FirstSupplier(2, NameW)
    /\ \E t \in filenames[1].tensors : t.dtype = "U32"
    /\ Len(slots[NameB]) = 1

(* A name ends with ".inv_freq": it is some prefix followed by the suffix.  *)
HasDerivableSuffix(n) ==
    \E k \in 0..Len(n) : n = SubSeq(n, 1, k) \o inv_freq

(* C8: a step that visits a tensor whose name is not in the ParameterTable  *)
(* does not fail the load and changes neither the table nor any slot; it    *)
(* logs one warning for the name, unless the name ends with ".inv_freq",    *)
(* and then it logs none.  Such a tensor is never read as a view.           *)
C8_UnmatchedTensorSkipped ==
    [][ \A t \in todo :
          (lm_pc = "names" /\ t.name \notin DOMAIN vars) =>
              /\ \A v \in view' : v.tensor # t
              /\ t \notin todo' =>
                    /\ lm_result' = NoResult
                    /\ lm_pc' = "names"
                    /\ vars' = vars
                    /\ slots' = slots
                    /\ warnings' = IF HasDerivableSuffix(t.name)
                                    THEN warnings
                                    ELSE warnings \o <<t.name>> ]_vars_all

C8_Witness ==
    /\ lm_result.tag = "Ok"
    /\ Len(filenames) = 2
    /\ \E i \in Shards : Supplies(i, NameR)
    /\ Supplies(1, NameX)
    /\ Supplies(1, NameW) /\ Supplies(2, NameW)
    /\ warnings = <<NameX, NameW>>

(* C9: finalize is called once in a load that succeeds and never in a load  *)
(* that fails; it is called only after the shard loop has run to its end    *)
(* with every mapping released and the ParameterTable found empty, and the  *)
(* model is returned only after the call.                                   *)
C9_FinalizeOnceOnSuccess ==
    /\ finalized \in {0, 1}
    /\ lm_result.tag = "Ok" => finalized = 1
    /\ Failed(lm_result) => finalized = 0
    /\ lm_pc = "done" => (finalized = 1 <=> lm_result.tag = "Ok")
    /\ finalized = 1 =>
          /\ LoopCompleted
          /\ opened = [i \in Shards |-> i]
          /\ mapped = {}
          /\ DOMAIN vars = {}
          /\ lm_pc \in {"return", "done"}
    /\ lm_pc = "return" => (finalized = 1 /\ lm_result = NoResult)

C9_Witness ==
    /\ lm_result.tag = "Ok"
    /\ finalized = 1
    /\ Len(filenames) = 2
    /\ bar = 2

----------------------------------------------------------------------------
(* Properties of profile_model                                              *)

(* R = M * f - P in exact arithmetic, as a numerator over 2^FracBits.       *)
RemainingExact == gpu_mem * frac - dev_peak * 2 ^ FracBits

(* floor(R)                                                                 *)
RemainingFloor == RemainingExact \div 2 ^ FracBits

Returned == pm_pc = "done" /\ pm_result.tag = "CacheSize"

(* C5 as stated: with an accelerator and E > 0, R >= 0 gives a device block *)
(* count of floor(R / E), and R < 0 gives a fatal failure.                  *)
C5_DeviceBlocksExactFloor ==
    (pm_pc = "done" /\ gpu_mem > 0) =>
        IF RemainingExact >= 0
        THEN /\ pm_result.tag = "CacheSize"
             /\ pm_result.gpu = RemainingExact \div (elt_size * 2 ^ FracBits)
        ELSE pm_result.tag = "panic"

(* C5 amended: the budget is L = trunc(fl(M * f)) - P with fl the rounding  *)
(* of the f64 product, so L is floor(R) or floor(R) + 1.  With R >= 0 the   *)
(* call returns and gpu is floor(L / E); with R <= -1 it fails; a returned  *)
(* count is never negative.                                                 *)
C5_DeviceBlocksFromRoundedBudget ==
    (pm_pc = "done" /\ gpu_mem > 0) =>
        /\ pm_result.tag \in {"CacheSize", "panic"}
        /\ RemainingExact >= 0 => pm_result.tag = "CacheSize"
        /\ RemainingExact <= -(2 ^ FracBits) => pm_result.tag = "panic"
        /\ pm_result.tag = "CacheSize" =>
              /\ pm_result.gpu >= 0
              /\ gpu_cache_size \in {RemainingFloor, RemainingFloor + 1}
              /\ gpu_cache_size >= 0
              /\ pm_result.gpu * elt_size <= gpu_cache_size
              /\ gpu_cache_size < (pm_result.gpu + 1) * elt_size

C5_Witness ==
    /\ Returned
    /\ gpu_mem = 3000
    /\ dev_peak = 700
    /\ elt_size = 3
    /\ gpu_cache_size = RemainingFloor + 1
    /\ pm_result.gpu = 666

(* C6: every CacheSize returned, with or without an accelerator, has a host *)
(* block count that is at most the device block count and at most           *)
(* floor(2 GiB / E).                                                        *)
C6_HostBlocksBounded ==
    pm_result.tag = "CacheSize" =>
        /\ pm_result.cpu <= pm_result.gpu
        /\ pm_result.cpu * elt_size <= max_cpu

C6_Witness ==
    /\ Returned
    /\ gpu_mem > 0
    /\ gpu_cache_size > max_cpu
    /\ pm_result.cpu < pm_result.gpu
    /\ pm_result.cpu = max_cpu \div elt_size

----------------------------------------------------------------------------
(* Properties of load_model_config                                          *)

(* The position in Schemas of the first schema that parses config.json.     *)
FirstMatch ==
    CHOOSE i \in 1..Len(Schemas) :
        /\ Schemas[i] \in cfg_in.parses
        /\ \A j \in 1..(i - 1) : Schemas[j] \notin cfg_in.parses

IsPrefix(a, b) == Len(a) <= Len(b) /\ a = SubSeq(b, 1, Len(a))

(* The failure when no schema parses: the heading, then one line for each   *)
(* schema, in the order of Schemas, each starting with the schema's name.   *)
AggregatedFailure ==
    /\ cfg_result.tag = "Err"
    /\ attempts = Schemas
    /\ Len(Lines(cfg_result.text)) = 1 + Len(Schemas)
    /\ \A i \in 1..Len(Schemas) :
          Lines(cfg_result.text)[i + 1][1] = Schemas[i]

(* C7 as stated: the schemas are tried in the order llama, phi; when some   *)
(* schema parses, the config of the first such schema is returned and no    *)
(* later schema is attempted; when none parses, the call fails with one     *)
(* line per attempted schema.                                               *)
C7_FirstMatchReturned ==
    /\ IsPrefix(attempts, Schemas)
    /\ (cfg_pc = "done" /\ cfg_in.readable) =>
          IF cfg_in.parses # {}
          THEN /\ attempts = SubSeq(Schemas, 1, FirstMatch)
               /\ cfg_result.tag = "Ok"
               /\ cfg_result.cfg.schema = Schemas[FirstMatch]
          ELSE AggregatedFailure

(* C7 amended: as stated, but the config of the first matching schema is    *)
(* returned only if the tokenizer is then found; if it is not, the call     *)
(* fails with the tokenizer's error and returns no config.                  *)
C7_FirstMatchReturnedIfTokenizer ==
    /\ IsPrefix(attempts, Schemas)
    /\ cfg_result.tag = "Ok" =>
          /\ cfg_in.parses # {}
          /\ cfg_result.cfg.schema = Schemas[FirstMatch]
    /\ (cfg_pc = "done" /\ cfg_in.readable) =>
          IF cfg_in.parses # {}
          THEN /\ attempts = SubSeq(Schemas, 1, FirstMatch)
               /\ IF cfg_in.tokenizer.found
                  THEN /\ cfg_result.tag = "Ok"
                       /\ cfg_result.cfg.schema = Schemas[FirstMatch]
                  ELSE /\ cfg_result.tag = "Err"
                       /\ cfg_result.cfg = NoConfig
                       /\ Len(Lines(cfg_result.text)) = 1
          ELSE AggregatedFailure

C7_Witness ==
    /\ cfg_pc = "done"
    /\ cfg_in.parses = {"llama", "phi"}
    /\ cfg_result.tag = "Ok"
    /\ cfg_result.cfg.schema = "llama"
    /\ attempts = <<"llama">>

----------------------------------------------------------------------------
(* Properties of model_filenames                                            *)

IndexBroken ==
    \/ repo.index.state \in {"unreadable", "not_json", "no_weight_map"}
    \/ /\ repo.index.state = "json"
       /\ \E i \in 1..Len(repo.index.weight_map) :
             ~repo.index.weight_map[i].is_str

(* C10: an index document that is present but cannot be read or parsed      *)
(* makes model_filenames fail with no shard list, and the default shard     *)
(* name is used only when the index document is absent.                     *)
C10_BrokenIndexIsFatal ==
    /\ branch = "fallback" => repo.index.state = "absent"
    /\ (mf_pc = "done" /\ IndexBroken) =>
          /\ mf_result.tag \in {"Err", "panic"}
          /\ mf_result.paths = <<>>

----------------------------------------------------------------------------
(* Properties of load_aphrodite_engine and of the routines run inside it    *)

(* Positions of the shard names of the manifest that repo.get cannot find.  *)
Unresolvable ==
    {i \in 1..Len(shard_names) : ~repo_get_is_ok(repo, shard_names[i])}

(* C11: model_filenames returns no path list unless it returns Ok; it       *)
(* returns Err when repo.get fails for some shard name of the manifest;     *)
(* a list it returns has one path per shard name of the manifest, the path  *)
(* of that name, in manifest order; and load_model is entered, and a shard  *)
(* opened, only after every shard name of the manifest has resolved.        *)
C11_AllOrNothingResolution ==
    /\ mf_result.tag # "Ok" => mf_result.paths = <<>>
    /\ (mf_pc = "done" /\ Unresolvable # {}) =>
          /\ mf_result.tag = "Err"
          /\ mf_result.paths = <<>>
    /\ mf_result.tag = "Ok" =>
          /\ Unresolvable = {}
          /\ Len(mf_result.paths) = Len(shard_names)
          /\ \A i \in 1..Len(shard_names) :
                mf_result.paths[i] = PathOf(shard_names[i])
    /\ (lm_pc # "idle" \/ opened # <<>> \/ mapped # {}) =>
          /\ mf_pc = "done"
          /\ mf_result.tag = "Ok"
          /\ Unresolvable = {}
          /\ Len(filenames) = Len(shard_names)

C11_Witness ==
    /\ eng_pc = "done"
    /\ eng_result = [tag |-> "Err", stage |-> "model_filenames"]
    /\ Len(shard_names) = 3
    /\ Unresolvable = {2}
    /\ gets = SubSeq(shard_names, 1, 2)
    /\ paths = <<PathOf(shard_names[1])>>
    /\ mf_result = [tag |-> "Err", paths |-> <<>>]
    /\ lm_pc = "idle"
    /\ opened = <<>>

(* The index document is present and parses into a weight_map of strings.   *)
IndexParses ==
    /\ repo.index.state = "json"
    /\ \A i \in 1..Len(repo.index.weight_map) : repo.index.weight_map[i].is_str

(* The shard names that occur as values of weight_map.                      *)
WeightMapValues ==
    {repo.index.weight_map[i].str : i \in 1..Len(repo.index.weight_map)}

(* C12: once model_filenames has built the shard-name list from an index    *)
(* document that is present and parses, the list holds exactly the shard    *)
(* names that occur as values of weight_map and is strictly ascending in    *)
(* byte order (so each name occurs once); the list is thus fixed by the set *)
(* of values, whatever their order and multiplicity in weight_map.          *)
C12_ShardNamesDistinctSorted ==
    (IndexParses /\ mf_pc \in {"resolve", "done"}) =>
        /\ branch = "index"
        /\ {shard_names[i] : i \in 1..Len(shard_names)} = WeightMapValues
        /\ Len(shard_names) = Cardinality(WeightMapValues)
        /\ \A i, j \in 1..Len(shard_names) :
              i < j => StrLess(shard_names[i], shard_names[j])
        /\ \A i, j \in 1..Len(shard_names) :
              i # j => shard_names[i] # shard_names[j]

C12_Witness ==
    /\ IndexParses
    /\ mf_pc = "done"
    /\ mf_result.tag = "Ok"
    /\ repo.index.weight_map =
          << [is_str |-> TRUE, str |-> <<"s", "2">>],
             [is_str |-> TRUE, str |-> <<"s", "1", "0">>],
             [is_str |-> TRUE, str |-> <<"s", "2">>] >>
    /\ shard_names = << <<"s", "1", "0">>, <<"s", "2">> >>

----------------------------------------------------------------------------
(* Further properties of load_model                                         *)

(* C13 as stated: the copy step, reached for a tensor whose name is in the  *)
(* ParameterTable, aborts the load exactly if the element count of the      *)
(* tensor differs from the element count of its slot.                       *)
C13_RejectedIffCountDiffers ==
    [][ \A v \in view :
          (lm_pc = "copy" /\ v.tensor.name \in DOMAIN vars) =>
              (Failed(lm_result') <=>
                  Numel(v.tensor.shape) # Numel(vars[v.tensor.name])) ]_vars_all

(* C13 amended: the copy step aborts the load exactly if the shape of the   *)
(* tensor, as a list of dimensions, differs from the declared shape of its  *)
(* slot.  A tensor of the slot's shape is never rejected and fills the      *)
(* slot; a tensor of another element count is always rejected.              *)
C13_RejectedIffShapeDiffers ==
    [][ \A v \in view :
          (lm_pc = "copy" /\ v.tensor.name \in DOMAIN vars) =>
              LET name == v.tensor.name
              IN  /\ Failed(lm_result') <=> v.tensor.shape # vars[name]
                  /\ Numel(v.tensor.shape) # Numel(vars[name]) =>
                        lm_result'.tag = "panic"
                  /\ v.tensor.shape = vars[name] =>
                        /\ lm_result' = NoResult
                        /\ slots'[name] =
                              Append(slots[name],
                                     [shard |-> idx, kind |-> v.kind])
                  /\ v.tensor.shape # vars[name] =>
                        /\ lm_result'.tag = "panic"
                        /\ slots' = slots ]_vars_all

(* The load has aborted on a tensor of 3 x 2 elements for the slot of       *)
(* 2 x 3 elements.                                                          *)
C13_Witness ==
    /\ lm_pc = "done"
    /\ lm_result.tag = "panic"
    /\ lm_result.text = "assertion failed: var.size() == src_tensor.size()"
    /\ idx = 2
    /\ Len(filenames) = 2
    /\ FirstSupplier(2, NameW)
    /\ \E t \in filenames[2].tensors :
          /\ t.name = NameW
          /\ t.shape = <<3, 2>>
          /\ Numel(t.shape) = Numel(Declared[NameW])
    /\ \A t \in filenames[2].tensors : t.name \in {NameW, NameX, NameR}
    /\ slots[NameW] = <<>>

----------------------------------------------------------------------------
(* Further properties of profile_model                                      *)

(* The peak has been read: profile_model is past gpu_peak_allocated_bytes.  *)
PeakRead == gpu_mem > 0 /\ pm_pc \in {"size", "log", "done"}

(* C14 as stated: with an accelerator, the calls are made in the order      *)
(* reset_mem_stats, profile_run (the synthetic batch), forward, peak read,  *)
(* and no reset follows the construction of the batch.                      *)
C14_ResetThenBatch ==
    gpu_mem > 0 =>
        /\ IsPrefix(pm_events, <<"reset_mem_stats", "profile_run", "forward",
                                 "gpu_peak_allocated_bytes">>)
        /\ \A i, j \in 1..Len(pm_events) :
              (pm_events[i] = "profile_run" /\ i < j) =>
                  pm_events[j] # "reset_mem_stats"

(* C14 amended: with an accelerator, the calls are made in the order        *)
(* profile_run (the synthetic batch), reset_mem_stats, forward, peak read;  *)
(* once the peak has been read each has been made exactly once, and no      *)
(* reset lies between the forward pass and the peak read.  Without an       *)
(* accelerator none of them is made.                                        *)
C14_BatchThenReset ==
    /\ gpu_mem > 0 =>
          /\ IsPrefix(pm_events, <<"profile_run", "reset_mem_stats", "forward",
                                   "gpu_peak_allocated_bytes">>)
          /\ \A i, j \in 1..Len(pm_events) :
                (pm_events[i] = "forward" /\ i < j) =>
                    pm_events[j] # "reset_mem_stats"
    /\ PeakRead =>
          /\ Len(pm_events) = 4
          /\ \A e \in {"profile_run", "reset_mem_stats", "forward",
                       "gpu_peak_allocated_bytes"} :
                Cardinality({i \in 1..Len(pm_events) : pm_events[i] = e}) = 1
    /\ (gpu_mem > 0 /\ pm_result.tag # "none") => Len(pm_events) = 4
    /\ gpu_mem = 0 => pm_events = <<>>

C14_Witness ==
    /\ PeakRead
    /\ Returned
    /\ pm_events = <<"profile_run", "reset_mem_stats", "forward",
                     "gpu_peak_allocated_bytes">>

(* C15: with no accelerator (the device reports 0 memory) profile_model     *)
(* does not fail and can always take its next step until it has returned;   *)
(* it builds no batch, runs no forward pass and reads no peak; and the      *)
(* CacheSize it returns is that of a device budget of 512 MiB:              *)
(* gpu = floor(512 / E) and cpu = floor(min(2048, 512) / E), in MiB.        *)
C15_NoAcceleratorDefault ==
    gpu_mem = 0 =>
        /\ pm_result.tag # "panic"
        /\ pm_events = <<>>
        /\ pm_pc \notin {"batch", "reset", "forward", "peak"}
        /\ pm_pc \notin {"idle", "done"} => ENABLED PmNext
        /\ pm_pc = "done" =>
              /\ pm_result.tag = "CacheSize"
              /\ pm_result.gpu * elt_size <= 512
              /\ 512 < (pm_result.gpu + 1) * elt_size
              /\ pm_result.cpu * elt_size <= Min(2048, 512)
              /\ Min(2048, 512) < (pm_result.cpu + 1) * elt_size

C15_Witness ==
    /\ gpu_mem = 0
    /\ pm_pc = "done"
    /\ dev_peak = 4000
    /\ elt_size = 3
    /\ pm_result = [tag |-> "CacheSize", cpu |-> 170, gpu |-> 170]

----------------------------------------------------------------------------
(* Further properties of load_aphrodite_engine                              *)

StageNames == [i \in 1..Len(stages) |-> stages[i].stage]

(* The stages in the order of the claim, and every call in program order.   *)
StageOrder ==
    <<"build_config", "model_filenames", "load_model", "profile_model",
      "CacheEngine::new", "BlockSpaceManager::new">>

CallOrder ==
    <<"Repo::from">> \o StageOrder \o
    <<"build_seq_mgr", "TModel::new", "AphroditeEngine::build">>

IsStage(name) == \E i \in 1..Len(StageOrder) : StageOrder[i] = name

(* C16: the stages of load_aphrodite_engine start in the order config       *)
(* reconciliation, manifest resolution, weight loading, capacity profiling, *)
(* cache engine, block manager; a stage starts only after every earlier     *)
(* call has succeeded; a failed call is the last one made, the engine       *)
(* assembly ends with its failure and returns no engine; an engine is       *)
(* returned only after every call has been made and has succeeded.          *)
C16_StagesInOrderAllOrNothing ==
    /\ IsPrefix(StageNames, CallOrder)
    /\ IsPrefix(SelectSeq(StageNames, IsStage), StageOrder)
    /\ \A i \in 1..(Len(stages) - 1) : stages[i].outcome = "Ok"
    /\ \A i \in 1..Len(stages) :
          stages[i].outcome \in {"Err", "panic"} =>
              /\ i = Len(stages)
              /\ eng_pc = "done"
              /\ eng_result = [tag |-> stages[i].outcome,
                               stage |-> stages[i].stage]
    /\ eng_pc = "done" =>
          /\ eng_result.tag \in {"Ok", "Err", "panic"}
          /\ stages[Len(stages)].outcome = eng_result.tag
    /\ eng_result.tag = "Ok" =>
          /\ StageNames = CallOrder
          /\ \A i \in 1..Len(stages) : stages[i].outcome = "Ok"
          /\ mf_result.tag = "Ok"
          /\ lm_result.tag = "Ok"
          /\ pm_result.tag = "CacheSize"
    /\ lm_pc # "idle" => mf_result.tag = "Ok"
    /\ pm_pc # "idle" => lm_result.tag = "Ok"
    /\ (\E i \in 1..Len(stages) : stages[i].stage = "CacheEngine::new") =>
          pm_result.tag = "CacheSize"
    /\ (mf_pc = "done" /\ mf_result.tag # "Ok") =>
          lm_pc = "idle" /\ pm_pc = "idle" /\ eng_result.tag # "Ok"
    /\ (lm_pc = "done" /\ lm_result.tag # "Ok") =>
          pm_pc = "idle" /\ eng_result.tag # "Ok"
    /\ (pm_pc = "done" /\ pm_result.tag # "CacheSize") =>
          /\ eng_result.tag # "Ok"
          /\ \A i \in 1..Len(stages) : stages[i].stage # "CacheEngine::new"

(* The weight loading has failed in its second shard: nothing was profiled  *)
(* and no engine is returned.                                               *)
C16_Witness ==
    /\ eng_pc = "done"
    /\ eng_result = [tag |-> "panic", stage |-> "load_model"]
    /\ StageNames = SubSeq(CallOrder, 1, 4)
    /\ opened = <<1, 2>>
    /\ lm_result.tag = "panic"
    /\ pm_pc = "idle"
    /\ pm_result = NoCacheSize

(* In this state at most one mapping is alive, it is the mapping of the     *)
(* shard last opened, and every view was built from a mapping that is alive.*)
OneMappingAlive ==
    /\ Cardinality(mapped) <= 1
    /\ opened = [i \in 1..Len(opened) |-> i]
    /\ Len(opened) <= Len(filenames)
    /\ \A i \in mapped : i = Len(opened)
    /\ \A v \in view : v.shard \in mapped
    /\ lm_pc = "done" => (mapped = {} /\ view = {})

(* C17: shards are opened in list order; at every moment at most one        *)
(* mapping is alive and every view was built from a mapping that is alive;  *)
(* no mapping is alive when a shard is opened; a step that releases a       *)
(* mapping leaves no view behind; and when the load fails, in the middle of *)
(* a shard or elsewhere, no mapping and no view is left.                    *)
C17_OneMappingAtATime ==
    [][ /\ OneMappingAlive
        /\ OneMappingAlive'
        /\ opened' # opened =>
              /\ mapped = {}
              /\ opened' = Append(opened, Len(opened) + 1)
              /\ mapped' \subseteq {Len(opened) + 1}
        /\ \A i \in mapped \ mapped' : \A v \in view' : v.shard # i
        /\ Failed(lm_result') => (mapped' = {} /\ view' = {}) ]_vars_all

(* The load has failed in the middle of the second shard, after a tensor of *)
(* that shard was copied.                                                   *)
C17_Witness ==
    /\ lm_pc = "done"
    /\ lm_result.tag = "panic"
    /\ opened = <<1, 2>>
    /\ idx = 2
    /\ Len(slots[NameB]) = 1 /\ slots[NameB][1].shard = 2
    /\ mapped = {}
    /\ view = {}

(* A step only consumes the ParameterTable: its names stay among the names  *)
(* declared at construction, none is added, and the shape of an entry that  *)
(* remains is the declared one.                                             *)
OnlyConsumed ==
    /\ DOMAIN vars \subseteq DOMAIN Declared
    /\ DOMAIN vars' \subseteq DOMAIN vars
    /\ \A n \in DOMAIN vars' : vars'[n] = vars[n] /\ vars'[n] = Declared[n]

(* A step removes an entry only together with filling its slot from a       *)
(* tensor of the same name of the current shard, and does not fail.         *)
RemovedOnlyWhenFilled ==
    \A n \in DOMAIN vars \ DOMAIN vars' :
        /\ ~Failed(lm_result')
        /\ Len(slots'[n]) = Len(slots[n]) + 1
        /\ slots'[n][Len(slots'[n])].shard = idx
        /\ \E t \in filenames[idx].tensors : t.name = n

(* C18: every step of load_model only consumes the ParameterTable, and      *)
(* removes an entry only when its slot has been filled from a shard tensor  *)
(* of the same name.                                                        *)
C18_TableOnlyConsumed ==
    [][ OnlyConsumed /\ RemovedOnlyWhenFilled ]_vars_all

(* Every slot has been copied into at most once, and then from the first    *)
(* shard that declares a tensor of its name.                                *)
CopiedAtMostOnce ==
    \A n \in DOMAIN slots :
        /\ Len(slots[n]) <= 1
        /\ Len(slots[n]) = 1 => FirstSupplier(slots[n][1].shard, n)

(* Every shard is readable and every declared name is declared by some      *)
(* shard, by the first of them with the slot's shape and a recognized tag.  *)
FirstOccurrencesWell ==
    /\ AllReadable
    /\ \A n \in DOMAIN Declared :
          \E i \in Shards : \E t \in filenames[i].tensors :
              /\ t.name = n
              /\ FirstSupplier(i, n)
              /\ t.shape = Declared[n]
              /\ t.dtype \in KnownDtypes

(* Tensor t of the current shard has a declared name that an earlier shard  *)
(* declares too.                                                            *)
LaterOccurrence(t) ==
    /\ t.name \in DOMAIN Declared
    /\ \E j \in 1..(idx - 1) : Supplies(j, t.name)

(* C19: every slot is copied into at most once, from the first shard that   *)
(* declares its name; a later tensor of the same name is never read as a    *)
(* view, and the step that visits it logs a warning for its name and        *)
(* changes neither the slots nor the ParameterTable nor the outcome; and    *)
(* when the shard loop has run to its end, every declared name that some    *)
(* shard declares has its slot filled once.  So a load whose first          *)
(* occurrences are all well formed does not fail, whatever the later ones.  *)
C19_SlotCopiedAtMostOnce ==
    [][ /\ CopiedAtMostOnce
        /\ CopiedAtMostOnce'
        /\ FirstOccurrencesWell =>
              /\ ~Failed(lm_result')
              /\ lm_pc' = "done" => lm_result'.tag = "Ok"
        /\ \A t \in todo :
              (lm_pc = "names" /\ LaterOccurrence(t)) =>
                  /\ t.name \notin DOMAIN vars
                  /\ Len(slots[t.name]) = 1
                  /\ \A v \in view' : v.tensor # t
                  /\ t \notin todo' =>
                        /\ slots' = slots
                        /\ vars' = vars
                        /\ lm_result' = NoResult
                        /\ warnings' = Append(warnings, t.name)
        /\ (lm_pc' = "done" /\ idx' = Len(filenames) + 1) =>
              \A n \in DOMAIN Declared :
                  (\E i \in Shards : Supplies(i, n)) => Len(slots'[n]) = 1
      ]_vars_all

(* Both shards declare w, the second with a shape that is not the slot's.   *)
C19_Witness ==
    /\ lm_pc = "done"
    /\ lm_result.tag = "Ok"
    /\ Len(filenames) = 2
    /\ \E t \in filenames[1].tensors : t.name = NameW /\ t.shape = <<2, 3>>
    /\ \E t \in filenames[2].tensors : t.name = NameW /\ t.shape = <<4>>
    /\ slots[NameW] = <<[shard |-> 1, kind |-> "Float"]>>
    /\ \E k \in 1..Len(warnings) : warnings[k] = NameW

====
